---------------------------- MODULE Spec2Model ----------------------------
(***************************************************************************)
(* A model of the pxe-image configuration pipeline and first-boot          *)
(* provisioner:                                                            *)
(*   src/pxe_image/config.py          package normalisation and validation *)
(*   src/pxe_image/simple_config.py   the user line-format parser          *)
(*   src/pxe_image/network.py         default interface/gateway detection  *)
(*   src/kiwi/root/usr/local/lib/custom/provision.py   the provisioner     *)
(*                                                                         *)
(* Text is modelled as a sequence of character codes (32 is a space, 97 is *)
(* "a"), so that trimming, comparing and sorting are computed, not assumed.*)
(***************************************************************************)
EXTENDS Integers, Sequences, FiniteSets, TLC

VARIABLES
    \* ---- config.py: _normalise_packages / validate_packages
    packages,      \* the requested package list (input), entries [str, v]
    zypper,        \* whether shutil.which("zypper") finds the oracle
    npc,           \* "todo" until NormalisePackages has run, then "done"
    normalised,    \* result of _normalise_packages(packages)
    renormalised,  \* result of _normalise_packages on that result
    vpc,           \* position in validate_packages
    pkg_list,      \* validate_packages: the normalised list
    index,         \* validate_packages: 0-based start of the next chunk
    missing,       \* validate_packages: the aggregated missing names
    batches,       \* history: one record per oracle call
    vresult,       \* what validate_packages returned or raised
    \* ---- network.py: detect_default_interface_and_gateway
    routeQuery,    \* outcome of "ip -json route show default"
    netpc,         \* "todo" until the detection has run, then "done"
    netResult,     \* what the detection returned or raised
    \* ---- simple_config.py: parse_user_line / parse_users
    line,          \* the user line given to parse_user_line (its words)
    lineno,        \* the line number given with it
    ufile,         \* the lines of the users file given to parse_users
    upc,           \* "line" or "file" (which one is to run), then "done"
    lineResult,    \* what parse_user_line returned or raised
    usersResult,   \* what parse_users returned or raised
    \* ---- provision.py: collect_authorized_keys / install_authorized_keys
    kSources,      \* the user's github_keys list (input)
    kExisting,     \* authorized_keys before: [exists, lines]
    kOutcomes,     \* history: the outcome of each source's fetch
    kCollected,    \* what collect_authorized_keys returned
    kFile,         \* authorized_keys after: [exists, lines]
    kpc,           \* "collect", "install", "done" or "aborted"
    \* ---- provision.py: run, boot after boot
    config,        \* the compiled configuration file, as json.load reads it
    pc,            \* position in run(): boot, group, users, disable, detect,
                   \* install, done (returned) or failed (an exception left run)
    runs,          \* number of runs started
    uidx,          \* index of the next entry of config["users"]
    groups,        \* group database: the groups that exist
    accounts,      \* account database: the users that exist
    members,       \* <<user, group>> pairs set by usermod -aG
    pwset,         \* users whose password chpasswd has set
    authKeys,      \* per configured user, ~/.ssh/authorized_keys
    svcEnabled,    \* services enabled at boot
    svcActive,     \* services running
    target,        \* /etc/custom/install_target: [set, v]
    stateDir,      \* whether /var/lib/custom-installer exists
    marker,        \* /var/lib/custom-installer/installed: [set, v]
    disk,          \* run(): what record_target_disk returned, [set, v]
    kiwiFound,     \* install_to_disk: what shutil.which("kiwi-install") gave
    installs,      \* history: every invocation of kiwi-install, [run, disk, ok]
    log,           \* history: the commands, fetches and writes of the current run
    reported,      \* history: the messages printed in the current run
    ended          \* history: during the second run, what the first run left
                   \* behind if it returned; else <<>>

pkgVars == <<packages, zypper, npc, normalised, renormalised, vpc, pkg_list, index,
             missing, batches, vresult>>

netVars == <<routeQuery, netpc, netResult>>

userVars == <<line, lineno, ufile, upc, lineResult, usersResult>>

keyVars == <<kSources, kExisting, kOutcomes, kCollected, kFile, kpc>>

provVars == <<config, pc, runs, uidx, groups, accounts, members, pwset, authKeys,
              svcEnabled, svcActive, target, stateDir, marker, disk, kiwiFound,
              installs, log, reported, ended>>

vars == <<pkgVars, netVars, userVars, keyVars, provVars>>

(***************************************************************************)
(* Text helpers: Python's str.strip(), string comparison and sorted().     *)
(***************************************************************************)
IsSpace(c) == c \in {9, 10, 11, 12, 13, 32}

RECURSIVE LStrip(_)
LStrip(s) ==
    IF s = <<>> THEN <<>>
    ELSE IF IsSpace(Head(s)) THEN LStrip(Tail(s)) ELSE s

RECURSIVE RStrip(_)
RStrip(s) ==
    IF s = <<>> THEN <<>>
    ELSE IF IsSpace(s[Len(s)]) THEN RStrip(SubSeq(s, 1, Len(s) - 1)) ELSE s

Strip(s) == RStrip(LStrip(s))

RECURSIVE StrLess(_, _)
StrLess(a, b) ==
    IF b = <<>> THEN FALSE
    ELSE IF a = <<>> THEN TRUE
    ELSE IF Head(a) < Head(b) THEN TRUE
    ELSE IF Head(a) > Head(b) THEN FALSE
    ELSE StrLess(Tail(a), Tail(b))

StrLeq(a, b) == a = b \/ StrLess(a, b)

RECURSIVE InsertSorted(_, _)
InsertSorted(x, s) ==
    IF s = <<>> THEN <<x>>
    ELSE IF StrLess(x, Head(s)) THEN <<x>> \o s
    ELSE <<Head(s)>> \o InsertSorted(x, Tail(s))

RECURSIVE Sorted(_)
Sorted(s) ==
    IF s = <<>> THEN <<>>
    ELSE InsertSorted(s[Len(s)], Sorted(SubSeq(s, 1, Len(s) - 1)))

RECURSIVE SetToSeq(_)
SetToSeq(S) ==
    IF S = {} THEN <<>>
    ELSE LET x == CHOOSE y \in S : TRUE IN <<x>> \o SetToSeq(S \ {x})

Range(s) == {s[i] : i \in 1..Len(s)}

IsSortedSeq(s) == \A i \in 1..(Len(s) - 1) : StrLeq(s[i], s[i + 1])

NoDuplicates(s) == \A i, j \in 1..Len(s) : i # j => s[i] # s[j]

SeqsUpTo(S, n) == UNION {[1..k -> S] : k \in 0..n}

(***************************************************************************)
(* config.py                                                               *)
(***************************************************************************)
\* A list entry: a string (str = TRUE, v its text) or some other object.
StrEntry(s) == [str |-> TRUE, v |-> s]
OtherEntry == [str |-> FALSE, v |-> <<>>]

\* _normalise_packages with the duplicate test left out.
RECURSIVE normalise_keep_duplicates(_, _, _)
normalise_keep_duplicates(pkgs, out, seen) ==
    IF pkgs = <<>> THEN out
    ELSE LET pkg == Head(pkgs)
             stripped == Strip(pkg.v)
         IN IF ~pkg.str THEN normalise_keep_duplicates(Tail(pkgs), out, seen)
            ELSE IF stripped = <<>>
                 THEN normalise_keep_duplicates(Tail(pkgs), out, seen)
                 ELSE normalise_keep_duplicates(Tail(pkgs), Append(out, stripped),
                                                seen \cup {stripped})

\* The loop of _normalise_packages: normalised and seen are its two locals.
RECURSIVE normalise_loop(_, _, _)
normalise_loop(pkgs, out, seen) ==
    IF pkgs = <<>> THEN out
    ELSE LET pkg == Head(pkgs)
             stripped == Strip(pkg.v)
         IN IF ~pkg.str THEN normalise_loop(Tail(pkgs), out, seen)
            ELSE IF stripped = <<>> \/ stripped \in seen
                 THEN normalise_loop(Tail(pkgs), out, seen)
                 ELSE normalise_loop(Tail(pkgs), Append(out, stripped),
                                     seen \cup {stripped})

normalise_packages(pkgs) == normalise_loop(pkgs, <<>>, {})

AsEntries(names) == [i \in 1..Len(names) |-> StrEntry(names[i])]

BatchSize == 25

\* _chunked yields values[index : index + size]; index is 0-based.
chunk_of_size(values, idx, size) ==
    SubSeq(values, idx + 1, IF idx + size < Len(values) THEN idx + size ELSE Len(values))

chunked(values, idx) == chunk_of_size(values, idx, BatchSize)

\* The oracle's diagnostic text, line by line: a line is either
\* "Package '<name>' not found." (nf = TRUE) or anything else.
NotFoundLine(n) == [nf |-> TRUE, name |-> n]
NoiseLine == [nf |-> FALSE, name |-> <<>>]

\* _MISSING_RE.findall(output): the names of the matching lines, in order.
RECURSIVE findall_missing(_)
findall_missing(output) ==
    IF output = <<>> THEN <<>>
    ELSE IF Head(output).nf THEN <<Head(output).name>> \o findall_missing(Tail(output))
    ELSE findall_missing(Tail(output))

\* _extract_missing_packages ignoring what the oracle printed.
extract_requested_only(output, requested) == requested

extract_missing_packages(output, requested) ==
    LET matches == findall_missing(output)
    IN IF matches # <<>> THEN matches ELSE requested

\* for pkg in chunk_missing: if pkg not in missing: missing.append(pkg)
RECURSIVE append_new(_, _)
append_new(acc, names) ==
    IF names = <<>> THEN acc
    ELSE IF Head(names) \in Range(acc) THEN append_new(acc, Tail(names))
    ELSE append_new(Append(acc, Head(names)), Tail(names))


\* ---- inputs of the package specification
MaxPkgLen == 3
MaxOver == 2

Name(c) == <<c>>
PkgA == Name(97)
PkgB == Name(98)
Foreign == Name(122)

EntryChoices ==
    { StrEntry(PkgA), StrEntry(<<32>> \o PkgA), StrEntry(PkgB \o <<32>>),
      StrEntry(<<>>), StrEntry(<<32>>), OtherEntry }

ShortLists == SeqsUpTo(EntryChoices, MaxPkgLen)

\* ["a", "", "a", "b"]
ExampleList == <<StrEntry(PkgA), StrEntry(<<>>), StrEntry(PkgA), StrEntry(PkgB)>>

\* n distinct one-character names, the first repeated at the end when dup.
LongList(n, dup) ==
    LET base == [i \in 1..n |-> StrEntry(Name(200 + i))]
    IN IF dup THEN Append(base, StrEntry(Name(201))) ELSE base

LongLists ==
    { LongList(n, d) : n \in (BatchSize - 1)..(BatchSize + MaxOver), d \in BOOLEAN }

\* What the oracle may print for a failing call on chunk c.
OracleOutputs(c) ==
    { <<>>, <<NoiseLine>>,
      <<NotFoundLine(c[1])>>,
      <<NoiseLine, NotFoundLine(c[Len(c)])>>,
      <<NotFoundLine(c[Len(c)]), NotFoundLine(c[1])>>,
      <<NotFoundLine(c[1]), NotFoundLine(c[1])>>,
      <<NotFoundLine(Foreign)>> }

NoResult == [kind |-> "none", names |-> <<>>]

PkgInit ==
    /\ packages \in ShortLists \cup LongLists \cup {ExampleList}
    /\ zypper \in BOOLEAN
    /\ npc = "todo"
    /\ normalised = <<>>
    /\ renormalised = <<>>
    /\ vpc = "start"
    /\ pkg_list = <<>>
    /\ index = 0
    /\ missing = <<>>
    /\ batches = <<>>
    /\ vresult = NoResult

PkgIdle ==
    /\ packages = <<>>
    /\ zypper = FALSE
    /\ npc = "done"
    /\ normalised = <<>>
    /\ renormalised = <<>>
    /\ vpc = "idle"
    /\ pkg_list = <<>>
    /\ index = 0
    /\ missing = <<>>
    /\ batches = <<>>
    /\ vresult = NoResult

\* _normalise_packages applied to the input, and again to its own result.
NormalisePackages ==
    /\ npc = "todo"
    /\ npc' = "done"
    /\ normalised' = normalise_packages(packages)
    /\ renormalised' = normalise_packages(AsEntries(normalise_packages(packages)))
    /\ UNCHANGED <<packages, zypper, vpc, pkg_list, index, missing, batches, vresult>>
    /\ UNCHANGED <<netVars, userVars, keyVars, provVars>>

\* validate_packages up to its loop: normalise, the empty short-circuit,
\* the check that the oracle binary exists.
ValidateBegin ==
    /\ vpc = "start"
    /\ LET pl == normalise_packages(packages)
       IN /\ pkg_list' = pl
          /\ IF pl = <<>>
             THEN /\ vpc' = "returned"
                  /\ vresult' = [kind |-> "returned", names |-> <<>>]
             ELSE IF ~zypper
             THEN /\ vpc' = "raised"
                  /\ vresult' = [kind |-> "zypper not found", names |-> <<>>]
             ELSE /\ vpc' = "loop"
                  /\ vresult' = vresult
    /\ index' = 0
    /\ missing' = <<>>
    /\ batches' = <<>>
    /\ UNCHANGED <<packages, zypper, npc, normalised, renormalised>>
    /\ UNCHANGED <<netVars, userVars, keyVars, provVars>>

\* The statements run for a chunk whose oracle call exits non-zero.
\* missing.append(pkg) follows the loop over chunk_missing, where pkg is
\* still bound to the last name of chunk_missing.
failing_chunk(acc, output, chunk) ==
    LET chunk_missing == extract_missing_packages(output, chunk)
        merged == append_new(acc, chunk_missing)
    IN Append(merged, chunk_missing[Len(chunk_missing)])

\* One iteration of the loop over _chunked(pkg_list, 25).
ValidateChunk ==
    /\ vpc = "loop"
    /\ index < Len(pkg_list)
    /\ LET chunk == chunked(pkg_list, index)
       IN \/ /\ missing' = missing
             /\ batches' = Append(batches,
                    [chunk |-> chunk, rc |-> 0, output |-> <<>>])
          \/ \E output \in OracleOutputs(chunk) :
                /\ missing' = failing_chunk(missing, output, chunk)
                /\ batches' = Append(batches,
                       [chunk |-> chunk, rc |-> 1, output |-> output])
    /\ index' = index + BatchSize
    /\ UNCHANGED <<packages, zypper, npc, normalised, renormalised, vpc, pkg_list, vresult>>
    /\ UNCHANGED <<netVars, userVars, keyVars, provVars>>

\* After the loop: raise with the sorted missing names, or return pkg_list.
ValidateEnd ==
    /\ vpc = "loop"
    /\ index >= Len(pkg_list)
    /\ IF missing # <<>>
       THEN /\ vpc' = "raised"
            /\ vresult' = [kind |-> "could not be validated", names |-> Sorted(missing)]
       ELSE /\ vpc' = "returned"
            /\ vresult' = [kind |-> "returned", names |-> pkg_list]
    /\ UNCHANGED <<packages, zypper, npc, normalised, renormalised, pkg_list, index,
                   missing, batches>>
    /\ UNCHANGED <<netVars, userVars, keyVars, provVars>>

PkgNext == NormalisePackages \/ ValidateBegin \/ ValidateChunk \/ ValidateEnd

(***************************************************************************)
(* simple_config.py                                                        *)
(*                                                                         *)
(* A word of a line is a sequence of symbols: the delimiters "=", "/",     *)
(* ":", "@", the blank " " (inside quotes) and atoms free of them, so that *)
(* the splits of the parser are computed.  CommentWord stands for a "#"    *)
(* and the rest of the line.                                               *)
(***************************************************************************)
MaxTokens == 4
MaxLines == 2

CommentWord == <<"#">>

\* shlex.split(line, comments=True, posix=True): the words before a comment.
RECURSIVE shlex_split(_)
shlex_split(words) ==
    IF words = <<>> THEN <<>>
    ELSE IF Head(words) = CommentWord THEN <<>>
    ELSE <<Head(words)>> \o shlex_split(Tail(words))

Contains(tok, d) == \E i \in 1..Len(tok) : tok[i] = d
FirstAt(tok, d) == CHOOSE i \in 1..Len(tok) : tok[i] = d /\ \A j \in 1..(i - 1) : tok[j] # d
LastAt(tok, d) == CHOOSE i \in 1..Len(tok) : tok[i] = d /\ \A j \in (i + 1)..Len(tok) : tok[j] # d
\* token.split(d, 1) and token.rsplit(d, 1), for a token that contains d.
SplitFirst(tok, d) ==
    [head |-> SubSeq(tok, 1, FirstAt(tok, d) - 1),
     tail |-> SubSeq(tok, FirstAt(tok, d) + 1, Len(tok))]
SplitLast(tok, d) ==
    [head |-> SubSeq(tok, 1, LastAt(tok, d) - 1),
     tail |-> SubSeq(tok, LastAt(tok, d) + 1, Len(tok))]

RECURSIVE LStripSym(_)
LStripSym(t) == IF t # <<>> /\ Head(t) = " " THEN LStripSym(Tail(t)) ELSE t
RECURSIVE RStripSym(_)
RStripSym(t) ==
    IF t # <<>> /\ t[Len(t)] = " " THEN RStripSym(SubSeq(t, 1, Len(t) - 1)) ELSE t
StripSym(t) == RStripSym(LStripSym(t))

\* int(value) succeeds.
IsInteger(value) == Len(value) = 1 /\ value[1] \in {"1000", "42"}

ParseError(n, msg) == [ok |-> FALSE, lineno |-> n, error |-> msg]

\* parse_repo_spec
parse_repo_spec(spec, n) ==
    LET hasAt == Contains(spec, "@")
        spec1 == IF hasAt THEN SplitLast(spec, "@").head ELSE spec
        ref == IF hasAt /\ SplitLast(spec, "@").tail # <<>>
               THEN SplitLast(spec, "@").tail ELSE <<"main">>
        hasColon == Contains(spec1, ":")
        repo_part == IF hasColon THEN SplitFirst(spec1, ":").head ELSE spec1
        path == IF hasColon /\ SplitFirst(spec1, ":").tail # <<>>
                THEN SplitFirst(spec1, ":").tail ELSE <<"authorized_keys">>
    IN IF ~Contains(repo_part, "/")
       THEN ParseError(n, "must include owner/repo")
       ELSE LET owner == SplitFirst(repo_part, "/").head
                repo == SplitFirst(repo_part, "/").tail
            IN IF owner = <<>> \/ repo = <<>>
               THEN ParseError(n, "is invalid")
               ELSE [ok |-> TRUE, lineno |-> n, error |-> "",
                     source |-> [type |-> "repo", owner |-> owner, repo |-> repo,
                                 path |-> path, ref |-> ref]]

NoText == [set |-> FALSE, v |-> <<>>]
Text(t) == [set |-> TRUE, v |-> t]

\* The user dictionary before any of tokens[2:] is read.
new_user(username, raw_password) ==
    LET isNone == raw_password \in {<<"-">>, <<"none">>, <<"null">>}
        isHash == Len(raw_password) >= 2 /\ raw_password[1] = "hash"
                     /\ raw_password[2] = ":"
        password == IF isNone THEN <<>>
                    ELSE IF isHash THEN SubSeq(raw_password, 3, Len(raw_password))
                    ELSE raw_password
    IN [username |-> username,
        github_keys |-> <<>>,
        password |-> IF password # <<>> THEN Text(password) ELSE NoText,
        password_is_hashed |-> password # <<>> /\ isHash /\ ~isNone,
        gecos |-> NoText, shell |-> NoText, home |-> NoText,
        uid |-> NoText, gid |-> NoText]

\* The loop over tokens[2:]: the user built so far, or the first error.
RECURSIVE parse_tokens(_, _, _)
parse_tokens(tokens, user, n) ==
    IF tokens = <<>> THEN [ok |-> TRUE, lineno |-> n, error |-> "", user |-> user]
    ELSE LET token == Head(tokens) IN
      IF Contains(token, "=")
      THEN LET key == StripSym(SplitFirst(token, "=").head)
               value == StripSym(SplitFirst(token, "=").tail)
           IN IF key \in {<<"gecos">>, <<"shell">>, <<"home">>}
              THEN parse_tokens(Tail(tokens), [user EXCEPT ![key[1]] = Text(value)], n)
              ELSE IF key \in {<<"uid">>, <<"gid">>}
              THEN IF IsInteger(value)
                   THEN parse_tokens(Tail(tokens), [user EXCEPT ![key[1]] = Text(value)], n)
                   ELSE ParseError(n, "must be an integer")
              ELSE IF key = <<"github_user">>
              THEN parse_tokens(Tail(tokens),
                      [user EXCEPT !.github_keys =
                          Append(@, [type |-> "user", user |-> value])], n)
              ELSE IF key = <<"github_url">>
              THEN parse_tokens(Tail(tokens),
                      [user EXCEPT !.github_keys =
                          Append(@, [type |-> "url", url |-> value])], n)
              ELSE ParseError(n, "unsupported attribute")
      ELSE LET repo_spec == parse_repo_spec(token, n)
           IN IF ~repo_spec.ok THEN ParseError(n, repo_spec.error)
              ELSE parse_tokens(Tail(tokens),
                      [user EXCEPT !.github_keys = Append(@, repo_spec.source)], n)

\* ensure_user_defaults
ensure_user_defaults(user) ==
    [user EXCEPT !.gecos = IF @.set THEN @ ELSE Text(user.username),
                 !.shell = IF @.set THEN @ ELSE Text(<<"/bin/bash">>)]

\* The end of parse_user_line with the test for key sources left out.
finish_without_check(user, n) ==
    [ok |-> TRUE, lineno |-> n, error |-> "", user |-> ensure_user_defaults(user)]

\* The end of parse_user_line: a user without key source is refused.
finish_user(user, n) ==
    IF user.github_keys = <<>>
    THEN ParseError(n, "at least one GitHub key source must be provided")
    ELSE [ok |-> TRUE, lineno |-> n, error |-> "", user |-> ensure_user_defaults(user)]

parse_user_line(words, n) ==
    LET tokens == shlex_split(words)
    IN IF tokens = <<>> THEN ParseError(n, "empty user definition")
       ELSE IF Len(tokens) < 3
       THEN ParseError(n, "expected 'username password repo[:path][@ref] [additional ...]'")
       ELSE LET parsed == parse_tokens(SubSeq(tokens, 3, Len(tokens)),
                                       new_user(tokens[1], tokens[2]), n)
            IN IF ~parsed.ok THEN parsed ELSE finish_user(parsed.user, n)

\* parse_users: blank lines and lines starting with "#" are skipped; the
\* first line that fails fails the whole call.
RECURSIVE parse_users_from(_, _, _)
parse_users_from(lines, n, users) ==
    IF n > Len(lines) THEN [ok |-> TRUE, lineno |-> 0, error |-> "", users |-> users]
    ELSE IF lines[n] = <<>> \/ Head(lines[n]) = CommentWord
    THEN parse_users_from(lines, n + 1, users)
    ELSE LET one == parse_user_line(lines[n], n)
         IN IF ~one.ok THEN one
            ELSE parse_users_from(lines, n + 1, Append(users, one.user))

parse_users(lines) == parse_users_from(lines, 1, <<>>)

\* ---- inputs of the user-line specification
W_alice == <<"alice">>
W_dash == <<"-">>
W_hash == <<"hash", ":", "$6$xyz">>
W_repo == <<"octocat", "/", "keys", ":", "ssh.pub", "@", "develop">>
W_gecos == <<"gecos", "=", "Alice">>
W_uid == <<"uid", "=", "abc">>
W_ghuser == <<"github_user", "=", "octocat">>
W_typo == <<"githubuser", "=", "x">>

Words == {W_alice, W_dash, W_hash, W_repo, W_gecos, W_uid, W_ghuser, W_typo, CommentWord}

UserLines == SeqsUpTo(Words, MaxTokens)

FileLines ==
    { <<>>, <<CommentWord, W_alice>>,
      <<W_alice, W_dash, W_repo, W_gecos>>,
      <<W_alice, W_hash, W_ghuser>>,
      <<W_alice, W_dash>>,
      <<W_alice, W_hash, W_gecos>> }

UserFiles == SeqsUpTo(FileLines, MaxLines)

NoParse == ParseError(0, "")

UserInit ==
    /\ \/ /\ upc = "line"
          /\ line \in UserLines
          /\ lineno \in {1, 2}
          /\ ufile = <<>>
       \/ /\ upc = "file"
          /\ line = <<>>
          /\ lineno = 0
          /\ ufile \in UserFiles
    /\ lineResult = NoParse
    /\ usersResult = NoParse

UserIdle ==
    /\ upc = "idle"
    /\ line = <<>>
    /\ lineno = 0
    /\ ufile = <<>>
    /\ lineResult = NoParse
    /\ usersResult = NoParse

ParseUserLine ==
    /\ upc = "line"
    /\ upc' = "done"
    /\ lineResult' = parse_user_line(line, lineno)
    /\ UNCHANGED <<line, lineno, ufile, usersResult>>
    /\ UNCHANGED <<pkgVars, netVars, keyVars, provVars>>

ParseUsers ==
    /\ upc = "file"
    /\ upc' = "done"
    /\ usersResult' = parse_users(ufile)
    /\ UNCHANGED <<line, lineno, ufile, lineResult>>
    /\ UNCHANGED <<pkgVars, netVars, keyVars, provVars>>

UserNext == ParseUserLine \/ ParseUsers

(***************************************************************************)
(* network.py                                                              *)
(***************************************************************************)
MaxRoutes == 2

\* A JSON value of a route entry: absent (entry.get gives None) or a string.
NoValue == [set |-> FALSE, v |-> ""]
Value(s) == [set |-> TRUE, v |-> s]
Truthy(x) == x.set /\ x.v # ""

\* An element of the route list: a JSON object with dev and gateway, or
\* something that is not an object.
RouteEntry(d, g) == [dict |-> TRUE, dev |-> d, gateway |-> g]
NonDictEntry == [dict |-> FALSE, dev |-> NoValue, gateway |-> NoValue]

DevChoices == {NoValue, Value(""), Value("eth0"), Value("eth1")}
GatewayChoices == {NoValue, Value("10.0.0.1"), Value("10.0.0.2")}
RouteEntryChoices ==
    {RouteEntry(d, g) : d \in DevChoices, g \in GatewayChoices} \cup {NonDictEntry}

\* What the route query can come back with.
RouteQueries ==
    {[kind |-> k, data |-> <<>>] :
        k \in {"FileNotFoundError", "exit status", "JSONDecodeError", "not a list"}}
    \cup {[kind |-> "list", data |-> d] : d \in SeqsUpTo(RouteEntryChoices, MaxRoutes)}

\* _load_default_routes: the object entries of the list, or a failure, which
\* is raised when strict and an empty list otherwise.
load_default_routes(query, strict) ==
    IF query.kind # "list"
    THEN [raised |-> strict, routes |-> <<>>]
    ELSE [raised |-> FALSE, routes |-> SelectSeq(query.data, LAMBDA e : e.dict)]

\* _extract_route_field: the value of the first entry where it is truthy.
RECURSIVE extract_route_field(_, _)
extract_route_field(routes, field) ==
    IF routes = <<>> THEN NoValue
    ELSE IF Truthy(Head(routes)[field]) THEN Head(routes)[field]
    ELSE extract_route_field(Tail(routes), field)

NetError(msg) == [kind |-> msg, interface |-> "", gateway |-> NoValue]

detect_default_interface_and_gateway(query) ==
    LET loaded == load_default_routes(query, TRUE)
        interface == extract_route_field(loaded.routes, "dev")
    IN IF loaded.raised THEN NetError("Unable to query default routes")
       ELSE IF ~Truthy(interface)
       THEN NetError("No default network interface detected")
       ELSE [kind |-> "ok", interface |-> interface.v,
             gateway |-> extract_route_field(loaded.routes, "gateway")]

NetInit ==
    /\ routeQuery \in RouteQueries
    /\ netpc = "todo"
    /\ netResult = NetError("")

NetIdle ==
    /\ routeQuery = [kind |-> "list", data |-> <<>>]
    /\ netpc = "idle"
    /\ netResult = NetError("")

DetectDefaultInterfaceAndGateway ==
    /\ netpc = "todo"
    /\ netpc' = "done"
    /\ netResult' = detect_default_interface_and_gateway(routeQuery)
    /\ UNCHANGED routeQuery
    /\ UNCHANGED <<pkgVars, userVars, keyVars, provVars>>

NetNext == DetectDefaultInterfaceAndGateway

(***************************************************************************)
(* provision.py: SSH keys                                                  *)
(*                                                                         *)
(* A file or a response body is the sequence of its lines                  *)
(* (str.splitlines()); a line is a sequence of character codes.            *)
(***************************************************************************)
MaxSources == 2

\* An element of github_keys: a dict with a type and, when complete, the
\* fields that type needs; or something that is not a dict.
KeySource(t, c) == [dict |-> TRUE, type |-> t, complete |-> c]
NonDictSource == [dict |-> FALSE, type |-> "", complete |-> FALSE]

\* The source gets as far as fetch_remote_keys: it is a dict of a known
\* type and no field lookup raises KeyError.
IsFetched(source) ==
    source.dict /\ source.type \in {"user", "repo", "url"} /\ source.complete

\* What urlopen and read can come back with.
FetchOk(body) == [kind |-> "ok", body |-> body]
FetchFailed(k) == [kind |-> k, body |-> <<>>]
NotFetched == [kind |-> "not fetched", body |-> <<>>]
FetchFailures == {FetchFailed(k) : k \in {"HTTPError", "URLError", "timeout"}}

\* [line.strip() for line in lines if line.strip()]
RECURSIVE stripped_lines(_)
stripped_lines(lines) ==
    IF lines = <<>> THEN <<>>
    ELSE IF Strip(Head(lines)) = <<>> THEN stripped_lines(Tail(lines))
    ELSE <<Strip(Head(lines))>> \o stripped_lines(Tail(lines))

\* fetch_remote_keys: a failure of the fetch is raised as RuntimeError.
fetch_remote_keys(outcome) ==
    IF outcome.kind # "ok" THEN [raised |-> TRUE, keys |-> <<>>]
    ELSE [raised |-> FALSE, keys |-> stripped_lines(outcome.body)]

\* for key in keys: if key and key not in seen: ... collected.append(key)
RECURSIVE add_keys(_, _)
add_keys(collected, keys) ==
    IF keys = <<>> THEN collected
    ELSE IF Head(keys) # <<>> /\ Head(keys) \notin Range(collected)
    THEN add_keys(Append(collected, Head(keys)), Tail(keys))
    ELSE add_keys(collected, Tail(keys))

\* The loop of collect_authorized_keys with the RuntimeError of a failed
\* fetch left to propagate.
RECURSIVE collect_stop_at_failure(_, _, _)
collect_stop_at_failure(sources, outcomes, collected) ==
    IF sources = <<>> THEN [raised |-> FALSE, keys |-> collected]
    ELSE IF ~IsFetched(Head(sources))
    THEN collect_stop_at_failure(Tail(sources), Tail(outcomes), collected)
    ELSE LET fetched == fetch_remote_keys(Head(outcomes))
         IN IF fetched.raised THEN [raised |-> TRUE, keys |-> <<>>]
            ELSE collect_stop_at_failure(Tail(sources), Tail(outcomes),
                                         add_keys(collected, fetched.keys))

\* The loop of collect_authorized_keys; outcomes[i] is what the fetch of
\* sources[i] comes back with.
RECURSIVE collect_loop(_, _, _)
collect_loop(sources, outcomes, collected) ==
    IF sources = <<>> THEN [raised |-> FALSE, keys |-> collected]
    ELSE IF ~IsFetched(Head(sources))
    THEN collect_loop(Tail(sources), Tail(outcomes), collected)
    ELSE LET fetched == fetch_remote_keys(Head(outcomes))
         IN IF fetched.raised
            THEN collect_loop(Tail(sources), Tail(outcomes), collected)
            ELSE collect_loop(Tail(sources), Tail(outcomes),
                              add_keys(collected, fetched.keys))

collect_authorized_keys(sources, outcomes) == collect_loop(sources, outcomes, <<>>)

NoFile == [exists |-> FALSE, lines |-> <<>>]
File(lines) == [exists |-> TRUE, lines |-> lines]

\* install_authorized_keys writing the new keys only.
install_replacing(existing, keys) == File(Sorted(SetToSeq(Range(keys))))

\* install_authorized_keys adding the keys at the end of the file as it is.
install_appending(existing, keys) ==
    File((IF existing.exists THEN existing.lines ELSE <<>>) \o keys)

\* install_authorized_keys: the file it writes.
install_authorized_keys(existing, keys) ==
    LET existing_keys == IF existing.exists
                         THEN Range(stripped_lines(existing.lines)) ELSE {}
        new_keys == existing_keys \cup Range(keys)
    IN File(Sorted(SetToSeq(new_keys)))

\* ---- inputs of the key specification
KeyA == <<97>>
KeyB == <<98>>
KeyC == <<99>>
Pad(k) == <<32>> \o k \o <<32>>

SourceChoices ==
    { KeySource("user", TRUE), KeySource("repo", TRUE), KeySource("url", FALSE),
      KeySource("gist", TRUE), NonDictSource }

BodyChoices ==
    { <<>>, <<KeyA>>, <<KeyB, KeyA>>, <<Pad(KeyC), <<32>>, KeyB>> }

ExistingChoices ==
    { NoFile, File(<<>>), File(<<KeyA>>), File(<<KeyC, <<>>, KeyA>>),
      File(<<Pad(KeyA), KeyB>>) }

\* The outcomes a list of sources can meet: one per source that is fetched.
OutcomesFor(sources) ==
    { o \in [1..Len(sources) -> {NotFetched} \cup FetchFailures
                                  \cup {FetchOk(b) : b \in BodyChoices}] :
        \A i \in 1..Len(sources) : (o[i] = NotFetched) <=> ~IsFetched(sources[i]) }

KeyInit ==
    /\ kSources \in SeqsUpTo(SourceChoices, MaxSources)
    /\ kExisting \in ExistingChoices
    /\ kOutcomes = <<>>
    /\ kCollected = <<>>
    /\ kFile = kExisting
    /\ kpc = "collect"

KeyIdle ==
    /\ kSources = <<>>
    /\ kExisting = NoFile
    /\ kOutcomes = <<>>
    /\ kCollected = <<>>
    /\ kFile = NoFile
    /\ kpc = "idle"

\* authorized_keys = collect_authorized_keys(user)
CollectAuthorizedKeys ==
    /\ kpc = "collect"
    /\ \E outcomes \in OutcomesFor(kSources) :
          LET got == collect_authorized_keys(kSources, outcomes)
          IN /\ kOutcomes' = outcomes
             /\ kCollected' = got.keys
             /\ kpc' = IF got.raised THEN "aborted" ELSE "install"
    /\ UNCHANGED <<kSources, kExisting, kFile>>
    /\ UNCHANGED <<pkgVars, netVars, userVars, provVars>>

\* if authorized_keys: install_authorized_keys(username, authorized_keys)
InstallAuthorizedKeys ==
    /\ kpc = "install"
    /\ kFile' = IF kCollected # <<>>
                THEN install_authorized_keys(kExisting, kCollected) ELSE kFile
    /\ kpc' = "done"
    /\ UNCHANGED <<kSources, kExisting, kOutcomes, kCollected>>
    /\ UNCHANGED <<pkgVars, netVars, userVars, provVars>>

KeyNext == CollectAuthorizedKeys \/ InstallAuthorizedKeys

(***************************************************************************)
(* provision.py: run                                                       *)
(*                                                                         *)
(* The machine state lives across runs; log and reported restart with each *)
(* run.  Every external command can succeed or fail.                       *)
(***************************************************************************)
MaxRuns == 2

\* An entry of config["users"].  password says that the entry holds a
\* non-empty password string.
UserEntry(name, pw, sources) ==
    [dict |-> TRUE, hasName |-> TRUE, username |-> name, password |-> pw,
     github_keys |-> sources]
JunkEntry == [dict |-> FALSE, hasName |-> FALSE, username |-> "", password |-> FALSE,
              github_keys |-> <<>>]
NamelessEntry == [dict |-> TRUE, hasName |-> FALSE, username |-> "", password |-> TRUE,
                  github_keys |-> <<>>]

\* The configuration file: missing, not JSON, JSON whose top level is no
\* object, or an object.  servicesDict says that "services" is an object.
BadConfig(k) ==
    [kind |-> k, users |-> <<>>, servicesDict |-> FALSE, enable |-> <<>>, disable |-> <<>>]
Config(users, sd, enable, disable) ==
    [kind |-> "object", users |-> users, servicesDict |-> sd, enable |-> enable,
     disable |-> disable]

Sshd == <<115>>
Cups == <<99>>

ConfigChoices ==
    { BadConfig("missing"), BadConfig("malformed"), BadConfig("illshaped"),
      Config(<<UserEntry("alice", TRUE,
                         <<KeySource("user", TRUE), KeySource("repo", TRUE)>>)>>,
             FALSE, <<>>, <<>>),
      Config(<<JunkEntry, UserEntry("bob", FALSE, <<KeySource("url", TRUE)>>),
               NamelessEntry, UserEntry("alice", FALSE, <<NonDictSource>>)>>,
             TRUE, <<Sshd \o <<32>>>>, <<>>),
      Config(<<>>, TRUE, <<Sshd>>, <<<<32>>, Cups>>) }

ConfiguredUsers == {"alice", "bob"}

Sda == <<115, 100, 97>>
Sdb == <<115, 100, 98>>

\* What running the detector script can give.
DetectorOutcomes ==
    {[kind |-> "absent", stdout |-> <<>>], [kind |-> "exit status", stdout |-> Sda]}
    \cup {[kind |-> "output", stdout |-> o] :
             o \in {<<>>, <<32, 10>>, Sda \o <<10>>, Sdb \o <<10>>}}

\* What a fetch can give during provisioning.
ProvBodies == {<<KeyA>>, <<KeyB, Pad(KeyA)>>}
ProvOutcomesFor(sources) ==
    { o \in [1..Len(sources) -> {NotFetched, FetchFailed("URLError")}
                                  \cup {FetchOk(b) : b \in ProvBodies}] :
        \A i \in 1..Len(sources) : (o[i] = NotFetched) <=> ~IsFetched(sources[i]) }

Cmd(op, arg, ok) == [op |-> op, arg |-> arg, ok |-> ok]

ProvInit ==
    /\ config \in ConfigChoices
    /\ pc = "boot"
    /\ runs = 0
    /\ uidx = 1
    /\ groups \in {{}, {"sudo", "wheel"}}
    /\ accounts = {}
    /\ members = {}
    /\ pwset = {}
    /\ authKeys = [u \in ConfiguredUsers |-> NoFile]
    /\ svcEnabled = {Cups}
    /\ svcActive = {Cups}
    /\ target = NoText
    /\ stateDir = FALSE
    /\ marker = NoText
    /\ disk = NoText
    /\ kiwiFound = FALSE
    /\ installs = <<>>
    /\ log = <<>>
    /\ reported = {}
    /\ ended = <<>>

ProvIdle ==
    /\ config = BadConfig("missing")
    /\ pc = "idle"
    /\ runs = 0
    /\ uidx = 1
    /\ groups = {}
    /\ accounts = {}
    /\ members = {}
    /\ pwset = {}
    /\ authKeys = [u \in ConfiguredUsers |-> NoFile]
    /\ svcEnabled = {}
    /\ svcActive = {}
    /\ target = NoText
    /\ stateDir = FALSE
    /\ marker = NoText
    /\ disk = NoText
    /\ kiwiFound = FALSE
    /\ installs = <<>>
    /\ log = <<>>
    /\ reported = {}
    /\ ended = <<>>

\* What a run that returns leaves behind for users, keys and services, with
\* the account creations, fetches and service operations of its log.
IsUserOrServiceOp(e) ==
    e.op \in {"useradd", "urlopen", "systemctl enable", "systemctl start",
              "systemctl disable", "systemctl stop"}
EndOfRun(lg) ==
    [run |-> runs, accounts |-> accounts, members |-> members, authKeys |-> authKeys,
     svcEnabled |-> svcEnabled, svcActive |-> svcActive,
     log |-> SelectSeq(lg, IsUserOrServiceOp)]

\* run() starts (at boot, or again after an earlier run ended):
\* config = read_config(config_path), which raises when the file is missing
\* or is no JSON.
ReadConfig ==
    /\ pc \in {"boot", "done", "failed"}
    /\ runs < MaxRuns
    /\ runs' = runs + 1
    /\ log' = <<>>
    /\ reported' = {}
    /\ uidx' = 1
    /\ disk' = NoText
    /\ kiwiFound' = FALSE
    /\ pc' = IF config.kind \in {"missing", "malformed"} THEN "failed" ELSE "group"
    /\ ended' = IF runs = 1 /\ pc = "done" THEN <<EndOfRun(log)>> ELSE <<>>
    /\ UNCHANGED <<config, groups, accounts, members, pwset, authKeys, svcEnabled,
                   svcActive, target, stateDir, marker, installs>>
    /\ UNCHANGED <<pkgVars, netVars, userVars, keyVars>>

\* ensure_group("sudo"), then config.get("users", []), which raises
\* AttributeError when the top level of the configuration is no object.
EnsureGroup ==
    /\ pc = "group"
    /\ \E ok \in BOOLEAN :
          IF "sudo" \in groups
          THEN /\ ok
               /\ UNCHANGED <<groups, log>>
               /\ pc' = IF config.kind = "illshaped" THEN "failed" ELSE "users"
          ELSE /\ log' = Append(log, Cmd("groupadd", "sudo", ok))
               /\ groups' = IF ok THEN groups \cup {"sudo"} ELSE groups
               /\ pc' = IF ~ok \/ config.kind = "illshaped" THEN "failed" ELSE "users"
    /\ UNCHANGED <<config, ended, runs, uidx, accounts, members, pwset, authKeys,
                   svcEnabled, svcActive, target, stateDir, marker, disk, kiwiFound,
                   installs, reported>>
    /\ UNCHANGED <<pkgVars, netVars, userVars, keyVars>>

\* What ensure_user leaves behind: raised says that an exception left it.
UserOutcome(raised, acc, mem, pw, file, lg, rep) ==
    [raised |-> raised, accounts |-> acc, members |-> mem, pwset |-> pw,
     file |-> file, log |-> lg, reported |-> rep]

\* One entry per source that collect_authorized_keys fetches: whether
\* urlopen and read succeeded, and the body they gave.
Fetch(name, outcome) ==
    [op |-> "urlopen", arg |-> name, ok |-> outcome.kind = "ok", body |-> outcome.body]
RECURSIVE fetches(_, _, _)
fetches(name, sources, outcomes) ==
    IF sources = <<>> THEN <<>>
    ELSE IF ~IsFetched(Head(sources))
    THEN fetches(name, Tail(sources), Tail(outcomes))
    ELSE <<Fetch(name, Head(outcomes))>>
         \o fetches(name, Tail(sources), Tail(outcomes))

\* ensure_user from the password step on: set_user_password swallows a
\* failure of chpasswd; the keys are collected and, if any, installed.
ensure_user_tail(user, acc, mem, lg, okPw, outcomes) ==
    LET name == user.username
        lg0 == IF user.password THEN Append(lg, Cmd("chpasswd", name, okPw)) ELSE lg
        lg1 == lg0 \o fetches(name, user.github_keys, outcomes)
        pw1 == IF user.password /\ okPw THEN pwset \cup {name} ELSE pwset
        rep1 == IF user.password /\ ~okPw
                THEN reported \cup {"Failed to set password"} ELSE reported
        got == collect_authorized_keys(user.github_keys, outcomes)
    IN IF got.raised
       THEN UserOutcome(TRUE, acc, mem, pw1, authKeys[name], lg1, rep1)
       ELSE IF got.keys = <<>>
       THEN UserOutcome(FALSE, acc, mem, pw1, authKeys[name], lg1, rep1)
       ELSE UserOutcome(FALSE, acc, mem, pw1,
                        install_authorized_keys(authKeys[name], got.keys),
                        Append(lg1, Cmd("write authorized_keys", name, TRUE)), rep1)

\* ensure_user with the exit status of usermod ignored (check=False).
ensure_user_unchecked(user, okAdd, okSudo, okWheel, okPw, outcomes) ==
    LET name == user.username
        user_exists == name \in accounts
        lg1 == IF user_exists THEN log ELSE Append(log, Cmd("useradd", name, okAdd))
        acc1 == IF okAdd THEN accounts \cup {name} ELSE accounts
        lg2 == Append(lg1, Cmd("usermod -aG sudo", name, okSudo))
        mem2 == IF okSudo THEN members \cup {<<name, "sudo">>} ELSE members
        wheel == "wheel" \in groups
        lg3 == IF wheel THEN Append(lg2, Cmd("usermod -aG wheel", name, okWheel)) ELSE lg2
        mem3 == IF wheel /\ okWheel THEN mem2 \cup {<<name, "wheel">>} ELSE mem2
    IN IF ~user_exists /\ ~okAdd
       THEN UserOutcome(TRUE, accounts, members, pwset, authKeys[name], lg1, reported)
       ELSE ensure_user_tail(user, acc1, mem3, lg3, okPw, outcomes)

\* ensure_user: useradd only when the lookup of the account fails; useradd
\* and usermod run with check=True, so a failure of one leaves ensure_user,
\* and run, as CalledProcessError.
ensure_user(user, okAdd, okSudo, okWheel, okPw, outcomes) ==
    LET name == user.username
        user_exists == name \in accounts
        lg1 == IF user_exists THEN log ELSE Append(log, Cmd("useradd", name, okAdd))
        acc1 == IF okAdd THEN accounts \cup {name} ELSE accounts
        lg2 == Append(lg1, Cmd("usermod -aG sudo", name, okSudo))
        mem2 == IF okSudo THEN members \cup {<<name, "sudo">>} ELSE members
        wheel == "wheel" \in groups
        lg3 == IF wheel THEN Append(lg2, Cmd("usermod -aG wheel", name, okWheel)) ELSE lg2
        mem3 == IF wheel /\ okWheel THEN mem2 \cup {<<name, "wheel">>} ELSE mem2
    IN IF ~user_exists /\ ~okAdd
       THEN UserOutcome(TRUE, accounts, members, pwset, authKeys[name], lg1, reported)
       ELSE IF ~okSudo
       THEN UserOutcome(TRUE, acc1, members, pwset, authKeys[name], lg2, reported)
       ELSE IF wheel /\ ~okWheel
       THEN UserOutcome(TRUE, acc1, mem2, pwset, authKeys[name], lg3, reported)
       ELSE ensure_user_tail(user, acc1, mem3, lg3, okPw, outcomes)

\* One turn of the loop over config["users"]: an entry that is no dict or
\* has no username is skipped.
EnsureUser ==
    /\ pc = "users"
    /\ uidx <= Len(config.users)
    /\ LET user == config.users[uidx]
       IN IF ~user.dict \/ ~user.hasName
          THEN /\ pc' = pc
               /\ UNCHANGED <<accounts, members, pwset, authKeys, log, reported>>
          ELSE \E okAdd, okSudo, okWheel, okPw \in BOOLEAN :
               \E outcomes \in ProvOutcomesFor(user.github_keys) :
                 LET out == ensure_user(user, okAdd, okSudo, okWheel, okPw, outcomes)
                 IN /\ pc' = IF out.raised THEN "failed" ELSE pc
                    /\ accounts' = out.accounts
                    /\ members' = out.members
                    /\ pwset' = out.pwset
                    /\ authKeys' = [authKeys EXCEPT ![user.username] = out.file]
                    /\ log' = out.log
                    /\ reported' = out.reported
    /\ uidx' = uidx + 1
    /\ UNCHANGED <<config, ended, runs, groups, svcEnabled, svcActive, target,
                   stateDir, marker, disk, kiwiFound, installs>>
    /\ UNCHANGED <<pkgVars, netVars, userVars, keyVars>>

\* The loops of enable_services and disable_services with the exit status
\* of systemctl checked (check=True): the first failing command ends them.
RECURSIVE service_loop_checked(_, _, _, _, _)
service_loop_checked(services, oks, on, st, i) ==
    IF i > Len(services) THEN st
    ELSE LET service == Strip(services[i])
             first == IF on THEN "systemctl enable" ELSE "systemctl disable"
             second == IF on THEN "systemctl start" ELSE "systemctl stop"
             en == IF on THEN st.enabled \cup {service} ELSE st.enabled \ {service}
             ac == IF on THEN st.active \cup {service} ELSE st.active \ {service}
         IN IF service = <<>> THEN service_loop_checked(services, oks, on, st, i + 1)
            ELSE IF ~oks[2 * i - 1]
            THEN [st EXCEPT !.log = Append(st.log, Cmd(first, service, FALSE))]
            ELSE IF ~oks[2 * i]
            THEN [enabled |-> en, active |-> st.active,
                  log |-> st.log \o <<Cmd(first, service, TRUE),
                                      Cmd(second, service, FALSE)>>]
            ELSE service_loop_checked(services, oks, on,
                    [enabled |-> en, active |-> ac,
                     log |-> st.log \o <<Cmd(first, service, TRUE),
                                         Cmd(second, service, TRUE)>>],
                    i + 1)

\* The state of the service manager and the log after the two commands
\* enable_services or disable_services issues for each name; oks[2i-1] and
\* oks[2i] say whether the two commands for services[i] succeed.
RECURSIVE service_loop(_, _, _, _, _)
service_loop(services, oks, on, st, i) ==
    IF i > Len(services) THEN st
    ELSE LET service == Strip(services[i])
             first == IF on THEN "systemctl enable" ELSE "systemctl disable"
             second == IF on THEN "systemctl start" ELSE "systemctl stop"
             en == IF ~oks[2 * i - 1] THEN st.enabled
                   ELSE IF on THEN st.enabled \cup {service} ELSE st.enabled \ {service}
             ac == IF ~oks[2 * i] THEN st.active
                   ELSE IF on THEN st.active \cup {service} ELSE st.active \ {service}
         IN IF service = <<>> THEN service_loop(services, oks, on, st, i + 1)
            ELSE service_loop(services, oks, on,
                    [enabled |-> en, active |-> ac,
                     log |-> st.log \o <<Cmd(first, service, oks[2 * i - 1]),
                                         Cmd(second, service, oks[2 * i])>>],
                    i + 1)

ServiceList(which) == IF config.servicesDict THEN config[which] ELSE <<>>

\* The loop over the users is over: enable_services(services.get("enable", [])).
EnableServices ==
    /\ pc = "users"
    /\ uidx > Len(config.users)
    /\ \E oks \in [1..(2 * Len(ServiceList("enable"))) -> BOOLEAN] :
          LET st == service_loop(ServiceList("enable"), oks, TRUE,
                       [enabled |-> svcEnabled, active |-> svcActive, log |-> log], 1)
          IN /\ svcEnabled' = st.enabled
             /\ svcActive' = st.active
             /\ log' = st.log
    /\ pc' = "disable"
    /\ UNCHANGED <<config, ended, runs, uidx, groups, accounts, members, pwset,
                   authKeys,
                   target, stateDir, marker, disk, kiwiFound, installs, reported>>
    /\ UNCHANGED <<pkgVars, netVars, userVars, keyVars>>

\* disable_services(services.get("disable", []))
DisableServices ==
    /\ pc = "disable"
    /\ \E oks \in [1..(2 * Len(ServiceList("disable"))) -> BOOLEAN] :
          LET st == service_loop(ServiceList("disable"), oks, FALSE,
                       [enabled |-> svcEnabled, active |-> svcActive, log |-> log], 1)
          IN /\ svcEnabled' = st.enabled
             /\ svcActive' = st.active
             /\ log' = st.log
    /\ pc' = "detect"
    /\ UNCHANGED <<config, ended, runs, uidx, groups, accounts, members, pwset,
                   authKeys,
                   target, stateDir, marker, disk, kiwiFound, installs, reported>>
    /\ UNCHANGED <<pkgVars, netVars, userVars, keyVars>>

\* record_target_disk with the exit status of the detector ignored.
record_ignoring_exit_status(outcome) ==
    IF outcome.kind = "absent" \/ Strip(outcome.stdout) = <<>> THEN NoText
    ELSE Text(Strip(outcome.stdout))

\* record_target_disk: None when the detector is absent, exits non-zero or
\* prints nothing but white space; else the trimmed output, which is also
\* written, with a line end, to the target file.
record_target_disk(outcome) ==
    IF outcome.kind # "output" \/ Strip(outcome.stdout) = <<>> THEN NoText
    ELSE Text(Strip(outcome.stdout))

\* disk = record_target_disk(target_disk_path); the detector, when the
\* script exists, is one more command of the run.
RecordTargetDisk ==
    /\ pc = "detect"
    /\ \E outcome \in DetectorOutcomes :
          LET d == record_target_disk(outcome)
              lg == IF outcome.kind = "absent" THEN log
                    ELSE Append(log, Cmd("detect-smallest-disk.sh", outcome.stdout,
                                         outcome.kind = "output"))
          IN /\ disk' = d
             /\ target' = IF d.set THEN Text(d.v \o <<10>>) ELSE target
             /\ log' = IF d.set THEN Append(lg, Cmd("write install_target", d.v, TRUE))
                       ELSE lg
    /\ pc' = "install"
    /\ UNCHANGED <<config, ended, runs, uidx, groups, accounts, members, pwset,
                   authKeys,
                   svcEnabled, svcActive, stateDir, marker, kiwiFound, installs,
                   reported>>
    /\ UNCHANGED <<pkgVars, netVars, userVars, keyVars>>

InstallOutcome(dir, mk, ins, lg, rep) ==
    [stateDir |-> dir, marker |-> mk, installs |-> ins, log |-> lg, reported |-> rep]

\* install_to_disk without the test of the marker.
install_ignoring_marker(d, kiwi_install, ok) ==
    IF ~d.set \/ ~kiwi_install
    THEN InstallOutcome(stateDir, marker, installs, log, reported)
    ELSE LET ins == Append(installs, [run |-> runs, disk |-> d.v, ok |-> ok])
             lg == Append(log, Cmd("kiwi-install", d.v, ok))
         IN IF ~ok
            THEN InstallOutcome(TRUE, marker, ins, lg,
                                reported \cup {"Failed to install image"})
            ELSE InstallOutcome(TRUE, Text(d.v \o <<10>>), ins,
                                Append(lg, Cmd("write marker", d.v, TRUE)),
                                reported \cup {"Installed image"})

\* install_to_disk writing the marker whatever the installer's exit status.
install_marking_always(d, kiwi_install, ok) ==
    IF ~d.set \/ ~kiwi_install
    THEN InstallOutcome(stateDir, marker, installs, log, reported)
    ELSE IF marker.set
    THEN InstallOutcome(TRUE, marker, installs, log, reported)
    ELSE InstallOutcome(TRUE, Text(d.v \o <<10>>),
                        Append(installs, [run |-> runs, disk |-> d.v, ok |-> ok]),
                        Append(Append(log, Cmd("kiwi-install", d.v, ok)),
                               Cmd("write marker", d.v, TRUE)),
                        reported \cup {"Installed image"})

\* install_to_disk: nothing without a disk or without kiwi-install on the
\* path; nothing when the marker exists; else the installer runs, a failure
\* is printed, and the marker is written after a success.
install_to_disk(d, kiwi_install, ok) ==
    IF ~d.set \/ ~kiwi_install
    THEN InstallOutcome(stateDir, marker, installs, log, reported)
    ELSE IF marker.set
    THEN InstallOutcome(TRUE, marker, installs, log, reported)
    ELSE LET ins == Append(installs, [run |-> runs, disk |-> d.v, ok |-> ok])
             lg == Append(log, Cmd("kiwi-install", d.v, ok))
         IN IF ~ok
            THEN InstallOutcome(TRUE, marker, ins, lg,
                                reported \cup {"Failed to install image"})
            ELSE InstallOutcome(TRUE, Text(d.v \o <<10>>), ins,
                                Append(lg, Cmd("write marker", d.v, TRUE)),
                                reported \cup {"Installed image"})

\* install_to_disk(disk), the last statement of run().
InstallToDisk ==
    /\ pc = "install"
    /\ \E kiwi_install, ok \in BOOLEAN :
          LET out == install_to_disk(disk, kiwi_install, ok)
          IN /\ kiwiFound' = kiwi_install
             /\ stateDir' = out.stateDir
             /\ marker' = out.marker
             /\ installs' = out.installs
             /\ log' = out.log
             /\ reported' = out.reported
    /\ pc' = "done"
    /\ UNCHANGED <<config, ended, runs, uidx, groups, accounts, members, pwset,
                   authKeys, svcEnabled, svcActive, target, disk>>
    /\ UNCHANGED <<pkgVars, netVars, userVars, keyVars>>

ProvNext ==
    \/ ReadConfig
    \/ EnsureGroup
    \/ EnsureUser
    \/ EnableServices
    \/ DisableServices
    \/ RecordTargetDisk
    \/ InstallToDisk

(***************************************************************************)
(* Specifications: one per component; the other components stay idle.      *)
(***************************************************************************)
PkgSpecInit == PkgInit /\ NetIdle /\ UserIdle /\ KeyIdle /\ ProvIdle

PkgSpec == PkgSpecInit /\ [][PkgNext]_vars

UserSpecInit == UserInit /\ PkgIdle /\ NetIdle /\ KeyIdle /\ ProvIdle

UserSpec == UserSpecInit /\ [][UserNext]_vars

NetSpecInit == NetInit /\ PkgIdle /\ UserIdle /\ KeyIdle /\ ProvIdle

NetSpec == NetSpecInit /\ [][NetNext]_vars

KeySpecInit == KeyInit /\ PkgIdle /\ NetIdle /\ UserIdle /\ ProvIdle

KeySpec == KeySpecInit /\ [][KeyNext]_vars

\* The first-boot provisioner, run at boot after boot.
Init == ProvInit /\ PkgIdle /\ NetIdle /\ UserIdle /\ KeyIdle

Next == ProvNext

Spec == Init /\ [][Next]_vars

(***************************************************************************)
(* Claims about config.py, checked under PkgSpec.                          *)
(***************************************************************************)
\* The names a failing oracle call stands for: those of its "not found"
\* lines, or every requested name when it printed none.
MatchedNames(b) == {b.output[k].name : k \in {j \in 1..Len(b.output) : b.output[j].nf}}
ReportedBy(b) == IF MatchedNames(b) = {} THEN Range(b.chunk) ELSE MatchedNames(b)
FailingBatches == {i \in 1..Len(batches) : batches[i].rc # 0}

\* C6: for a failing batch whose output has no "Package '<name>' not found."
\* match, every name requested in that batch is reported missing; when the
\* output has matches, only the matched names are reported for that batch.
\* So the names reported missing are exactly the union, over the failing
\* batches, of the matched names or else of the requested names.
C6_FailSafeBatch ==
    /\ Range(missing) = UNION {ReportedBy(batches[i]) : i \in FailingBatches}
    /\ vresult.kind = "could not be validated" =>
          Range(vresult.names) = UNION {ReportedBy(batches[i]) : i \in FailingBatches}

\* A failing batch without matches and, in the same call of
\* validate_packages, a failing batch with a match, have both been processed.
C6_Witness ==
    /\ vresult.kind = "could not be validated"
    /\ \E i \in FailingBatches : MatchedNames(batches[i]) = {} /\ Len(batches[i].chunk) > 1
    /\ \E i \in FailingBatches :
          MatchedNames(batches[i]) # {} /\ MatchedNames(batches[i]) # Range(batches[i].chunk)

\* C7: validate_packages queries the oracle in batches of at most 25 names,
\* aggregates the missing names into a list in which no name appears twice,
\* fails with that list sorted if and only if a name is missing, and
\* otherwise returns the normalised list unchanged.
C7_BatchedDedupSorted ==
    /\ \A i \in 1..Len(batches) : Len(batches[i].chunk) \in 1..BatchSize
    /\ NoDuplicates(missing)
    /\ vresult.kind = "could not be validated" =>
          /\ FailingBatches # {}
          /\ vresult.names = Sorted(missing)
          /\ IsSortedSeq(vresult.names)
          /\ NoDuplicates(vresult.names)
    /\ (vresult.kind = "returned" /\ pkg_list # <<>>) =>
          /\ FailingBatches = {}
          /\ vresult.names = pkg_list
          /\ vresult.names = normalise_packages(packages)

\* Index of the first string entry of the input whose trimmed text is n.
FirstSeen(n) ==
    CHOOSE k \in 1..Len(packages) :
        /\ packages[k].str /\ Strip(packages[k].v) = n
        /\ \A j \in 1..(k - 1) : ~(packages[j].str /\ Strip(packages[j].v) = n)

\* C8: _normalise_packages returns the distinct trimmed non-empty names in
\* first-seen order: no name twice, no blank, every name the trimmed form of
\* an input entry, every such form present, first occurrences in their
\* input order, ["a", "", "a", "b"] gives ["a", "b"], and applying it to its
\* own result changes nothing.
C8_NormaliseFirstSeen ==
    npc = "done" =>
        /\ NoDuplicates(normalised)
        /\ \A i \in 1..Len(normalised) :
              /\ normalised[i] # <<>>
              /\ ~IsSpace(normalised[i][1])
              /\ ~IsSpace(normalised[i][Len(normalised[i])])
              /\ \E k \in 1..Len(packages) :
                    packages[k].str /\ Strip(packages[k].v) = normalised[i]
        /\ \A k \in 1..Len(packages) :
              (packages[k].str /\ Strip(packages[k].v) # <<>>) =>
                  Strip(packages[k].v) \in Range(normalised)
        /\ \A i \in 1..(Len(normalised) - 1) :
              FirstSeen(normalised[i]) < FirstSeen(normalised[i + 1])
        /\ packages = ExampleList => normalised = <<PkgA, PkgB>>
        /\ renormalised = normalised

\* The example list, with its blank and its duplicate, has been normalised.
C8_Witness ==
    /\ npc = "done"
    /\ packages = ExampleList
    /\ Len(normalised) = 2

(***************************************************************************)
(* Claims about network.py, checked under NetSpec.                         *)
(***************************************************************************)
\* The object entries of the queried route list, in order.
DefaultRoutes == SelectSeq(routeQuery.data, LAMBDA e : e.dict)

\* C10: detect_default_interface_and_gateway returns the device and the
\* gateway of the same, first, default-route entry: the interface is the
\* first entry's device, the gateway is that entry's gateway or none when
\* it has none; when no device is available the call fails with a network
\* error.
C10_SameFirstEntry ==
    netpc = "done" =>
        /\ netResult.kind = "ok" =>
              /\ DefaultRoutes # <<>>
              /\ Truthy(DefaultRoutes[1].dev)
              /\ netResult.interface = DefaultRoutes[1].dev.v
              /\ netResult.gateway =
                    IF Truthy(DefaultRoutes[1].gateway)
                    THEN DefaultRoutes[1].gateway ELSE NoValue
        /\ (\A i \in 1..Len(DefaultRoutes) : ~Truthy(DefaultRoutes[i].dev)) =>
              netResult.kind # "ok"

(***************************************************************************)
(* Claims about simple_config.py, checked under UserSpec.                  *)
(***************************************************************************)
LineParsed == upc = "done" /\ lineno # 0
FileParsed == upc = "done" /\ lineno = 0
Tokens == shlex_split(line)
ExtraTokens == SubSeq(Tokens, 3, Len(Tokens))

\* The token appends a key source when it is accepted: a bare repository
\* specification, github_user=... or github_url=...
IsKeySourceToken(tok) ==
    \/ ~Contains(tok, "=")
    \/ StripSym(SplitFirst(tok, "=").head) \in {<<"github_user">>, <<"github_url">>}

\* The token is an attribute the parser accepts that is no key source.
IsPlainAttribute(tok) ==
    /\ Contains(tok, "=")
    /\ LET key == StripSym(SplitFirst(tok, "=").head)
           value == StripSym(SplitFirst(tok, "=").tail)
       IN \/ key \in {<<"gecos">>, <<"shell">>, <<"home">>}
          \/ key \in {<<"uid">>, <<"gid">>} /\ IsInteger(value)

NoEmptyKeySources ==
    /\ (LineParsed /\ lineResult.ok) => lineResult.user.github_keys # <<>>
    /\ (FileParsed /\ usersResult.ok) =>
          \A i \in 1..Len(usersResult.users) : usersResult.users[i].github_keys # <<>>

Collected == kpc \in {"install", "done", "aborted"}
OkSources == {i \in 1..Len(kOutcomes) : kOutcomes[i].kind = "ok"}
FailedSources == {i \in 1..Len(kOutcomes) : kOutcomes[i] \in FetchFailures}
\* The keys a response body holds: its non-blank lines, trimmed.
KeysOfBody(body) ==
    {Strip(body[k]) : k \in {j \in 1..Len(body) : Strip(body[j]) # <<>>}}

Installed == kpc = "done" /\ kCollected # <<>>
\* The non-blank lines of the file as it was, as written and trimmed.
RawLines(f) == {f.lines[k] : k \in {j \in 1..Len(f.lines) : Strip(f.lines[j]) # <<>>}}
TrimmedLines(f) == {Strip(l) : l \in RawLines(f)}
StrictlySorted(s) == \A i \in 1..(Len(s) - 1) : StrLess(s[i], s[i + 1])

\* C4 as stated: the file written holds exactly the set union of the
\* non-blank lines of the existing file and the resolved keys, sorted,
\* without duplicate; no pre-existing line is removed.
C4_Original ==
    Installed =>
        /\ kFile.exists
        /\ Range(kFile.lines) = RawLines(kExisting) \cup Range(kCollected)
        /\ StrictlySorted(kFile.lines)
        /\ RawLines(kExisting) \subseteq Range(kFile.lines)

\* C4 as amended: the file written holds exactly the set union of the
\* trimmed non-blank lines of the existing file and the resolved keys,
\* sorted, without duplicate; every pre-existing key is kept, in its trimmed
\* form.
C4_SortedUnionOfTrimmed ==
    Installed =>
        /\ kFile.exists
        /\ Range(kFile.lines) = TrimmedLines(kExisting) \cup Range(kCollected)
        /\ StrictlySorted(kFile.lines)
        /\ TrimmedLines(kExisting) \subseteq Range(kFile.lines)

\* Keys were merged into a file that held a key not resolved, a key resolved
\* again, and lacked a resolved key.
C4_Witness ==
    /\ Installed
    /\ TrimmedLines(kExisting) \ Range(kCollected) # {}
    /\ TrimmedLines(kExisting) \cap Range(kCollected) # {}
    /\ Range(kCollected) \ TrimmedLines(kExisting) # {}

(***************************************************************************)
(* Claims about the runs of provision.py, checked under Spec.              *)
(***************************************************************************)
LastInstall == installs[Len(installs)]
InstalledThisRun == installs # <<>> /\ LastInstall.run = runs

\* C1: once the marker file exists, no later step of any run invokes
\* kiwi-install again, whatever disk the detector reports.
C1_NoInstallOnceMarked == [][marker.set => installs' = installs]_vars

\* A second run has ended in which the detector reported a disk other than
\* the one in the marker and kiwi-install was on the path; the installer has
\* been invoked once, in the first run.
C1_Witness ==
    /\ pc = "done"
    /\ runs = 2
    /\ marker.set
    /\ disk.set
    /\ kiwiFound
    /\ Strip(marker.v) # disk.v
    /\ Len(installs) = 1
    /\ installs[1].run = 1

\* C2: with a disk detected and the marker absent, a failing installer is
\* reported, run() still returns, and the marker stays absent, so that the
\* next such run invokes the installer again; after a successful installer
\* the marker holds the disk given to it.  The marker is written only after
\* a successful installer invocation of the same run.
C2_MarkerFollowsInstaller ==
    /\ [](InstalledThisRun =>
            /\ pc = "done"
            /\ LastInstall.ok =>
                  marker.set /\ Strip(marker.v) = LastInstall.disk
            /\ ~LastInstall.ok =>
                  ~marker.set /\ "Failed to install image" \in reported)
    /\ [][ /\ (~marker.set /\ marker'.set) =>
                 /\ installs' = Append(installs,
                                  [run |-> runs, disk |-> Strip(marker'.v), ok |-> TRUE])
                 /\ disk = Text(Strip(marker'.v))
           /\ (pc = "install" /\ pc' = "done" /\ disk.set /\ ~marker.set /\ kiwiFound') =>
                 /\ Len(installs') = Len(installs) + 1
                 /\ installs'[Len(installs')].disk = disk.v
                 /\ installs'[Len(installs')].run = runs ]_vars

\* The installer failed in the first run and was invoked again, with
\* success, in the second.
C2_Witness ==
    /\ pc = "done"
    /\ runs = 2
    /\ Len(installs) = 2
    /\ installs[1].run = 1 /\ ~installs[1].ok
    /\ installs[2].run = 2 /\ installs[2].ok
    /\ marker.set

\* C5: with a configuration file that is missing, is no JSON, or whose top
\* level is no JSON object, the run fails before any mutation: it gets no
\* further than the group step, and no group, user, password, key, service
\* or installer operation has taken effect.
C5_ConfigErrorBeforeMutation ==
    config.kind \in {"missing", "malformed", "illshaped"} =>
        /\ pc \in {"boot", "group", "failed"}
        /\ \A i \in 1..Len(log) : ~log[i].ok

AccountOps == {"useradd", "usermod -aG sudo", "usermod -aG wheel"}
AccountOpFailed(i) == log[i].op \in AccountOps /\ ~log[i].ok

\* C11: a failing useradd or usermod (sudo, or wheel when that group exists)
\* aborts the run on the spot: it is the last operation of the run, so the
\* password and key steps of that user, the later user entries, the service
\* operations and the installation are not performed; what was applied
\* before stays applied, and nothing changes until the next run starts.
C11_AccountFailureAbortsRun ==
    /\ [](\A i \in 1..Len(log) :
             AccountOpFailed(i) => i = Len(log) /\ pc = "failed")
    /\ [][ /\ (pc = "users" /\ pc' = "failed") =>
                 /\ accounts \subseteq accounts'
                 /\ members \subseteq members'
                 /\ pwset' = pwset
                 /\ authKeys' = authKeys
           /\ pc = "failed" =>
                 /\ runs' = runs + 1
                 /\ UNCHANGED <<groups, accounts, members, pwset, authKeys,
                                svcEnabled, svcActive, target, stateDir, marker,
                                installs>> ]_vars

\* The run was aborted by a failing usermod for alice after bob, an earlier
\* entry, got his account, his group and his keys, which he keeps; the
\* configuration names services that were not touched.
C11_Witness ==
    /\ pc = "failed"
    /\ log # <<>>
    /\ log[Len(log)].op = "usermod -aG sudo"
    /\ ~log[Len(log)].ok
    /\ log[Len(log)].arg = "alice"
    /\ {"alice", "bob"} \subseteq accounts
    /\ <<"bob", "sudo">> \in members
    /\ authKeys["bob"].exists
    /\ ~authKeys["alice"].exists
    /\ ServiceList("enable") # <<>>
    /\ svcEnabled = {Cups}

ServiceOps == {"systemctl enable", "systemctl start", "systemctl disable",
               "systemctl stop"}
IsServiceOp(e) == e.op \in ServiceOps
ServiceLog == SelectSeq(log, IsServiceOp)
IsNamed(service) == Strip(service) # <<>>
Named(services) == SelectSeq(services, IsNamed)
\* first and second for each non-blank name of services, in order.
PairsFor(services, first, second) ==
    [k \in 1..(2 * Len(Named(services))) |->
        [op |-> IF k % 2 = 1 THEN first ELSE second,
         arg |-> Strip(Named(services)[(k + 1) \div 2])]]
Issued == [k \in 1..Len(ServiceLog) |-> [op |-> ServiceLog[k].op,
                                         arg |-> ServiceLog[k].arg]]
EnablePairs == PairsFor(ServiceList("enable"), "systemctl enable", "systemctl start")
DisablePairs == PairsFor(ServiceList("disable"), "systemctl disable", "systemctl stop")
\* The k-th service operation succeeded and no later one undid it.
Stands(k, undo) ==
    /\ ServiceLog[k].ok
    /\ \A j \in (k + 1)..Len(ServiceLog) :
          ~(ServiceLog[j].op = undo /\ ServiceLog[j].arg = ServiceLog[k].arg
            /\ ServiceLog[j].ok)

\* C12: every non-blank name of the enable list gets enable then start, every
\* non-blank name of the disable list gets disable then stop, the enable list
\* first; whatever operations fail, the others are issued and take effect,
\* the run goes on to disk detection and installation, and no run is aborted
\* once a service operation was issued.
C12_ServiceOpsIndependent ==
    /\ pc = "disable" => Issued = EnablePairs
    /\ pc \in {"detect", "install", "done"} => Issued = EnablePairs \o DisablePairs
    /\ pc = "failed" => ServiceLog = <<>>
    /\ \A k \in 1..Len(ServiceLog) :
          /\ (ServiceLog[k].op = "systemctl enable" /\ Stands(k, "systemctl disable"))
                => ServiceLog[k].arg \in svcEnabled
          /\ (ServiceLog[k].op = "systemctl start" /\ Stands(k, "systemctl stop"))
                => ServiceLog[k].arg \in svcActive
          /\ (ServiceLog[k].op = "systemctl disable" /\ Stands(k, "systemctl enable"))
                => ServiceLog[k].arg \notin svcEnabled
          /\ (ServiceLog[k].op = "systemctl stop" /\ Stands(k, "systemctl start"))
                => ServiceLog[k].arg \notin svcActive

\* A run ended with the installer invoked after the enable and the disable
\* operation failed while the start and the stop that followed them worked;
\* the disable list held a blank name.
C12_Witness ==
    /\ pc = "done"
    /\ Len(ServiceLog) = 4
    /\ Len(ServiceList("disable")) = 2
    /\ ~ServiceLog[1].ok /\ ServiceLog[2].ok
    /\ ~ServiceLog[3].ok /\ ServiceLog[4].ok
    /\ Sshd \in svcActive \ svcEnabled
    /\ Cups \in svcEnabled \ svcActive
    /\ InstalledThisRun

IsDetection(e) == e.op = "detect-smallest-disk.sh"
\* The detection of this run is over and gave no disk: the script is
\* absent, exited non-zero, or printed nothing but white space.
DetectionFailed ==
    /\ pc \in {"install", "done"}
    /\ \A i \in 1..Len(log) :
          IsDetection(log[i]) => (~log[i].ok \/ Strip(log[i].arg) = <<>>)
DiskOps == {"write install_target", "kiwi-install", "write marker"}

\* C13: when the detector is absent, exits non-zero or prints nothing but
\* white space, the run ends without error and without installation: no
\* disk is passed on, the installer is not invoked, and the target-disk
\* record, the state directory and the marker are left as they were.
C13_NoDiskNoInstall ==
    /\ [](DetectionFailed =>
            /\ ~disk.set
            /\ ~InstalledThisRun
            /\ \A i \in 1..Len(log) : log[i].op \notin DiskOps)
    /\ [][(pc \in {"detect", "install"} /\ DetectionFailed') =>
            /\ pc' = IF pc = "detect" THEN "install" ELSE "done"
            /\ UNCHANGED <<target, stateDir, marker, installs, reported>>]_vars

\* A second run ended whose detector exited non-zero, with kiwi-install on
\* the path and no marker: the record the first run wrote is still there.
C13_Witness ==
    /\ pc = "done"
    /\ runs = 2
    /\ DetectionFailed
    /\ \E i \in 1..Len(log) : IsDetection(log[i]) /\ ~log[i].ok
    /\ kiwiFound
    /\ target.set
    /\ ~marker.set

FirstRun == ended[1]
\* The second run returned after the first run had returned.
SecondRunEnded == pc = "done" /\ ended # <<>>
IsFetch(e) == e.op = "urlopen"
Fetched(lg) == SelectSeq(lg, IsFetch)
ServiceAnswers(lg) == SelectSeq(lg, IsServiceOp)
\* Whatever both runs fetched from a source was the same body.
SameContents ==
    /\ Len(Fetched(log)) = Len(Fetched(FirstRun.log))
    /\ \A k \in 1..Len(Fetched(log)) :
          (Fetched(log)[k].ok /\ Fetched(FirstRun.log)[k].ok)
             => Fetched(log)[k].body = Fetched(FirstRun.log)[k].body
\* Every fetch and every service operation ended in both runs alike.
SameAnswers ==
    /\ Fetched(log) = Fetched(FirstRun.log)
    /\ ServiceAnswers(log) = ServiceAnswers(FirstRun.log)
Converged ==
    /\ accounts = FirstRun.accounts
    /\ \A i \in 1..Len(log) : log[i].op = "useradd" => log[i].arg \notin FirstRun.accounts
    /\ authKeys = FirstRun.authKeys
    /\ svcEnabled = FirstRun.svcEnabled
    /\ Cardinality({i \in 1..Len(installs) : installs[i].ok}) <= 1

\* C14 as stated: with the configuration and the remote key contents
\* unchanged, a second complete run leaves the accounts, every
\* authorized_keys file and the enabled services as the first complete run
\* left them, creates no account that exists, and the installation has been
\* performed at most once.
C14_Original == (SecondRunEnded /\ SameContents) => Converged

\* C14 as amended: the same, for two runs in which every fetch and every
\* service operation succeeded or failed alike.
C14_RerunConverges == (SecondRunEnded /\ SameAnswers) => Converged

\* Two runs returned with the same answers: the first created bob, merged
\* his keys, enabled sshd and installed the image; the second found a disk
\* and kiwi-install and left all of it as it was.
C14_Witness ==
    /\ SecondRunEnded
    /\ SameAnswers
    /\ "bob" \in accounts
    /\ authKeys["bob"].exists
    /\ \E k \in 1..Len(Fetched(log)) : Fetched(log)[k].ok
    /\ Sshd \in svcEnabled
    /\ Len(installs) = 1 /\ installs[1].ok /\ installs[1].run = 1
    /\ disk.set /\ kiwiFound

============================================================================
